---- MODULE Spec2Model ----
(***************************************************************************)
(* RoutesFunctions (location_service/functions/routes.py): the request to  *)
(* the routing API (calculate_routes) and the rendering of its response as *)
(* a line layer of the host project (add_line_layer and the methods it     *)
(* calls).                                                                 *)
(*                                                                         *)
(* A JSON object / Python dict is a function whose domain is the set of    *)
(* keys it has, so a missing key is a key outside DOMAIN.  A list is a     *)
(* sequence.  Host objects (layer, feature, geometry) are records; layers  *)
(* live in a heap (layers) and the project's registry refers to them by    *)
(* id, as the Python references do.                                        *)
(***************************************************************************)
EXTENDS Integers, Sequences, FiniteSets, TLC

VARIABLES
    settings,   \* the settings store read by ConfigurationHandler.get_setting
    response,   \* the JSON document the routing service answers with
    pc,         \* position inside add_line_layer / setup_layer ("idle": not running)
    layers,     \* heap of QgsVectorLayer objects ever constructed, by id
    registry,   \* QgsProject.instance(): ids of the registered map layers, in order
    runs,       \* one record per add_line_layer invocation: its argument and how it ended
    posts,      \* the requests the most recent calculate_routes call handed to
                \* ExternalApiHandler.send_json_post_request, in order
    ncalls,     \* number of calculate_routes calls made
    calc        \* the most recent calculate_routes call: its arguments, what the helper
                \* answered, and how the call ended

vars == <<settings, response, pc, layers, registry, runs, posts, ncalls, calc>>

(***************************************************************************)
(* Bounds of the model.                                                    *)
(***************************************************************************)
MaxRoutes == 2      \* routes in a response
MaxLabels == 2      \* major-road labels in a response, over all its routes
MaxLegs == 2        \* legs in a response, over all its routes
MaxRenders == 2     \* add_line_layer invocations in one behaviour
MaxCalls == 2       \* calculate_routes calls in one behaviour

(***************************************************************************)
(* Python values.                                                          *)
(***************************************************************************)
\* None where a scalar (a road name, an attribute value) is expected.
None == "None"
\* None as the HTTP helper's return value (no data); never equal to a dict.
NoResult == [NoneType |-> TRUE]
\* A local variable that no assignment has bound yet.
Unbound == "<unbound>"
\* {}
EmptyDict == [k \in {} |-> None]
\* d.get(k, default)
Get(d, k, default) == IF k \in DOMAIN d THEN d[k] ELSE default
\* k in d
HasKey(d, k) == k \in DOMAIN d

(***************************************************************************)
(* Class attributes of RoutesFunctions.                                    *)
(***************************************************************************)
KEY_REGION == "region_value"
KEY_APIKEY == "apikey_value"
WGS84_CRS == "EPSG:4326"
LAYER_TYPE == "LineString"
FIELD_ROADNAME == "RoadName"
LINE_COLOR == <<255, 0, 0>>
\* 2.0 in the source; the model has integers only
LINE_WIDTH == 2

(***************************************************************************)
(* The responses the model draws from.  A response is laid out by a plan:  *)
(* how many routes (or no "Routes" key), for each route how many labels    *)
(* and legs (or no "MajorRoadLabels" / "Legs" key), and at most one label  *)
(* or leg that lacks one of its keys.  Road names and coordinates are told *)
(* apart by position, so that a feature shows which label and which leg    *)
(* it was built from.                                                      *)
(***************************************************************************)
Streets ==
    <<"Main St", "Elm St", "Oak Ave", "Mill Rd", "High St", "Park Ln",
      "Bay Rd", "Hill St", "Lake Dr", "King St", "Pine Rd", "West Ave">>

RoadNameAt(i, k) ==
    Streets[(((i - 1) * (MaxLabels + 1) + (k - 1)) % Len(Streets)) + 1]

\* [lon, lat] pairs: leg j of route i runs from (i, j) to (i, j + 1)
LineStringAt(i, j) == << <<i, j>>, <<i, j + 1>> >>

Absent == 0 - 1
NoDefect == <<"none", 0, 0>>

LabelAt(i, k, d) ==
    IF d = <<"RoadName", i, k>> THEN EmptyDict
    ELSE IF d = <<"Value", i, k>> THEN [RoadName |-> EmptyDict]
    ELSE [RoadName |-> [Value |-> RoadNameAt(i, k)]]

LegAt(i, j, d) ==
    IF d = <<"Geometry", i, j>> THEN EmptyDict
    ELSE IF d = <<"LineString", i, j>> THEN [Geometry |-> EmptyDict]
    ELSE [Geometry |-> [LineString |-> LineStringAt(i, j)]]

RouteAt(i, nlabels, nlegs, d) ==
    (IF nlabels = Absent THEN EmptyDict
     ELSE "MajorRoadLabels" :> [k \in 1..nlabels |-> LabelAt(i, k, d)])
    @@
    (IF nlegs = Absent THEN EmptyDict
     ELSE "Legs" :> [j \in 1..nlegs |-> LegAt(i, j, d)])

ResponseOf(n, labels, legs, d) ==
    IF n = Absent THEN EmptyDict
    ELSE [Routes |-> [i \in 1..n |-> RouteAt(i, labels[i], legs[i], d)]]

DefectsOf(n, labels, legs) ==
    {NoDefect}
    \cup UNION {{<<kind, i, k>> : kind \in {"RoadName", "Value"}, k \in 1..labels[i]}
                : i \in 1..n}
    \cup UNION {{<<kind, i, j>> : kind \in {"Geometry", "LineString"}, j \in 1..legs[i]}
                : i \in 1..n}

\* The number of list elements a vector of per-route counts asks for.
RECURSIVE Total(_, _)
Total(counts, n) ==
    IF n <= 0 THEN 0
    ELSE Total(counts, n - 1) + (IF counts[n] = Absent THEN 0 ELSE counts[n])

\* Per-route counts (or Absent) for n routes, at most max elements in all.
CountsUpTo(n, max) == {c \in [1..n -> Absent..max] : Total(c, n) <= max}

\* response is one of the responses with at most nroutes routes, nlabels labels
\* and nlegs legs.
DrawResponse(nroutes, nlabels, nlegs) ==
    \E n \in Absent..nroutes :
        \E labels \in CountsUpTo(n, nlabels), legs \in CountsUpTo(n, nlegs) :
            \E d \in DefectsOf(n, labels, legs) :
                response = ResponseOf(n, labels, legs, d)

\* Walking a response as the expected shape lays it out.
RoutesOf(d) == Get(d, "Routes", <<>>)
LabelsOf(route) == Get(route, "MajorRoadLabels", <<>>)
LegsOf(route) == Get(route, "Legs", <<>>)

(***************************************************************************)
(* Host-toolkit objects, as far as this code sets or reads them.           *)
(***************************************************************************)
\* QgsVectorLayer(uri, name, "memory"): no fields, no features, the default renderer
QgsVectorLayer(id, uri, name, provider) ==
    [id |-> id, uri |-> uri, name |-> name, provider |-> provider,
     providerFields |-> <<>>, fields |-> <<>>, features |-> <<>>,
     renderer |-> [type |-> "default"], repaints |-> 0]

\* QgsField(name, type)
QgsField(name, type) == [name |-> name, type |-> type]

\* QgsPointXY(coord[0], coord[1])
QgsPointXY(coord) == [x |-> coord[1], y |-> coord[2]]

\* [QgsPointXY(coord[0], coord[1]) for coord in linestring]
LinePoints(linestring) == [n \in 1..Len(linestring) |-> QgsPointXY(linestring[n])]

\* QgsGeometry.fromPolylineXY(points)
FromPolylineXY(points) == [wkbType |-> "LineString", points |-> points]

\* QgsFeature(fields) after setAttributes and setGeometry
QgsFeature(fields, attributes, geometry) ==
    [fields |-> fields, attributes |-> attributes, geometry |-> geometry]

\* QgsSingleSymbolRenderer over a symbol whose layer 0 is a simple line
SingleSymbolRenderer(color, width) ==
    [type |-> "singleSymbol", symbolLayer |-> "SimpleLine", color |-> color, width |-> width]

(***************************************************************************)
(* add_features: the loops over routes, labels and legs.  The loop state   *)
(* is the local list features, the local roadname (Unbound until a label   *)
(* has been iterated) and, once a statement raises, the exception and the  *)
(* <<route, leg>> it was raised at.                                        *)
(***************************************************************************)
\* road.get("RoadName", {}).get("Value", None)
RoadNameOf(road) == Get(Get(road, "RoadName", EmptyDict), "Value", None)

\* Fault: the label loop stops after its first label.
LabelLoopFirstWins(labels, k, roadname) ==
    IF Len(labels) = 0 THEN roadname ELSE RoadNameOf(labels[1])

\* for road in labels: roadname = ...
RECURSIVE LabelLoop(_, _, _)
LabelLoop(labels, k, roadname) ==
    IF k > Len(labels) THEN roadname
    ELSE LabelLoop(labels, k + 1, RoadNameOf(labels[k]))

Raise(st, exception, i, j) == [st EXCEPT !.status = exception, !.at = <<i, j>>]

\* Fault: leg.get("Geometry", {}).get("LineString", []) in place of the subscripts.
LegBodyLenient(leg, fields, i, j, st) ==
    IF st.roadname = Unbound THEN Raise(st, "UnboundLocalError", i, j)
    ELSE [st EXCEPT !.features =
              Append(@, QgsFeature(fields, <<st.roadname>>,
                                   FromPolylineXY(LinePoints(
                                       Get(Get(leg, "Geometry", EmptyDict), "LineString", <<>>)))))]

\* the body of "for leg in ...": one leg
LegBody(leg, fields, i, j, st) ==
    IF ~HasKey(leg, "Geometry") THEN Raise(st, "KeyError", i, j)
    ELSE IF ~HasKey(leg["Geometry"], "LineString") THEN Raise(st, "KeyError", i, j)
    ELSE IF st.roadname = Unbound THEN Raise(st, "UnboundLocalError", i, j)
    ELSE [st EXCEPT !.features =
              Append(@, QgsFeature(fields, <<st.roadname>>,
                                   FromPolylineXY(LinePoints(leg["Geometry"]["LineString"]))))]

RECURSIVE LegLoop(_, _, _, _, _)
LegLoop(legs, fields, i, j, st) ==
    IF j > Len(legs) \/ st.status # "ok" THEN st
    ELSE LegLoop(legs, fields, i, j + 1, LegBody(legs[j], fields, i, j, st))

\* the body of "for route in ...": one route
RouteBody(route, fields, i, st) ==
    LegLoop(Get(route, "Legs", <<>>), fields, i, 1,
            [st EXCEPT !.roadname = LabelLoop(Get(route, "MajorRoadLabels", <<>>), 1, @)])

RECURSIVE RouteLoop(_, _, _, _)
RouteLoop(routes, fields, i, st) ==
    IF i > Len(routes) \/ st.status # "ok" THEN st
    ELSE RouteLoop(routes, fields, i + 1, RouteBody(routes[i], fields, i, st))

\* Fault: data["Routes"] in place of data.get("Routes", []).
BuildFeaturesSubscript(d, fields) ==
    IF ~HasKey(d, "Routes")
    THEN [status |-> "KeyError", features |-> <<>>, roadname |-> Unbound, at |-> <<0, 0>>]
    ELSE RouteLoop(d["Routes"], fields, 1,
                   [status |-> "ok", features |-> <<>>, roadname |-> Unbound, at |-> <<0, 0>>])

\* add_features up to (not including) dataProvider().addFeatures
BuildFeatures(d, fields) ==
    RouteLoop(Get(d, "Routes", <<>>), fields, 1,
              [status |-> "ok", features |-> <<>>, roadname |-> Unbound, at |-> <<0, 0>>])

(***************************************************************************)
(* add_line_layer(data) and setup_layer, one action per statement.         *)
(***************************************************************************)
cur == Len(layers)

calcVars == <<posts, ncalls, calc>>
envVars == <<settings, response>>

\* add_line_layer: the layer is constructed, setup_layer is entered
add_line_layer(d) ==
    /\ pc = "idle"
    /\ Len(layers) < MaxRenders
    /\ layers' = Append(layers,
                        QgsVectorLayer(Len(layers) + 1, LAYER_TYPE \o "?crs=" \o WGS84_CRS,
                                       "CalculateRoutes", "memory"))
    /\ runs' = Append(runs, [data |-> d, status |-> "running", at |-> <<0, 0>>])
    /\ pc' = "add_attributes"
    /\ UNCHANGED <<registry, calcVars, envVars>>

\* add_attributes: addAttributes on the provider, then updateFields
add_attributes ==
    /\ pc = "add_attributes"
    /\ LET provided == layers[cur].providerFields \o <<QgsField(FIELD_ROADNAME, "String")>>
       IN  layers' = [layers EXCEPT ![cur].providerFields = provided,
                                    ![cur].fields = provided]
    /\ pc' = "add_features"
    /\ UNCHANGED <<registry, runs, calcVars, envVars>>

\* Fault: the list features outlives the call (a class attribute), so each call hands
\* the provider the features of the earlier calls too.
add_features_shared_list ==
    /\ pc = "add_features"
    /\ LET st == BuildFeatures(runs[cur].data, layers[cur].fields)
           earlier == IF cur > 1 THEN layers[cur - 1].features ELSE <<>>
       IN  IF st.status = "ok"
           THEN /\ layers' = [layers EXCEPT ![cur].features = @ \o earlier \o st.features]
                /\ pc' = "apply_layer_style"
                /\ UNCHANGED runs
           ELSE /\ runs' = [runs EXCEPT ![cur].status = st.status, ![cur].at = st.at]
                /\ pc' = "idle"
                /\ UNCHANGED layers
    /\ UNCHANGED <<registry, calcVars, envVars>>

\* Fault: each feature is handed to the provider as soon as it is built, so the
\* features built before an exception stay in the layer.
add_features_one_by_one ==
    /\ pc = "add_features"
    /\ LET st == BuildFeatures(runs[cur].data, layers[cur].fields)
       IN  /\ layers' = [layers EXCEPT ![cur].features = @ \o st.features]
           /\ IF st.status = "ok"
              THEN pc' = "apply_layer_style" /\ UNCHANGED runs
              ELSE /\ runs' = [runs EXCEPT ![cur].status = st.status, ![cur].at = st.at]
                   /\ pc' = "idle"
    /\ UNCHANGED <<registry, calcVars, envVars>>

\* add_features: the features reach the provider in one addFeatures call after the
\* loops; an exception in the loops leaves add_line_layer at once
add_features ==
    /\ pc = "add_features"
    /\ LET st == BuildFeatures(runs[cur].data, layers[cur].fields)
       IN  IF st.status = "ok"
           THEN /\ layers' = [layers EXCEPT ![cur].features = @ \o st.features]
                /\ pc' = "apply_layer_style"
                /\ UNCHANGED runs
           ELSE /\ runs' = [runs EXCEPT ![cur].status = st.status, ![cur].at = st.at]
                /\ pc' = "idle"
                /\ UNCHANGED layers
    /\ UNCHANGED <<registry, calcVars, envVars>>

\* Fault: the symbol is built but layer.setRenderer is never called.
apply_layer_style_no_setRenderer ==
    /\ pc = "apply_layer_style"
    /\ pc' = "triggerRepaint"
    /\ UNCHANGED <<layers, registry, runs, calcVars, envVars>>

\* apply_layer_style
apply_layer_style ==
    /\ pc = "apply_layer_style"
    /\ layers' = [layers EXCEPT ![cur].renderer = SingleSymbolRenderer(LINE_COLOR, LINE_WIDTH)]
    /\ pc' = "triggerRepaint"
    /\ UNCHANGED <<registry, runs, calcVars, envVars>>

\* layer.triggerRepaint()
triggerRepaint ==
    /\ pc = "triggerRepaint"
    /\ layers' = [layers EXCEPT ![cur].repaints = @ + 1]
    /\ pc' = "addMapLayer"
    /\ UNCHANGED <<registry, runs, calcVars, envVars>>

\* Fault: the layer is added to the project twice.
addMapLayer_twice ==
    /\ pc = "addMapLayer"
    /\ registry' = registry \o <<layers[cur].id, layers[cur].id>>
    /\ runs' = [runs EXCEPT ![cur].status = "returned"]
    /\ pc' = "idle"
    /\ UNCHANGED <<layers, calcVars, envVars>>

\* QgsProject.instance().addMapLayer(layer); setup_layer and add_line_layer return
addMapLayer ==
    /\ pc = "addMapLayer"
    /\ registry' = Append(registry, layers[cur].id)
    /\ runs' = [runs EXCEPT ![cur].status = "returned"]
    /\ pc' = "idle"
    /\ UNCHANGED <<layers, calcVars, envVars>>

setup_layer ==
    \/ add_attributes
    \/ add_features
    \/ apply_layer_style
    \/ triggerRepaint
    \/ addMapLayer

(***************************************************************************)
(* Rendering alone: add_line_layer is called on the response, any number   *)
(* of times up to MaxRenders.                                              *)
(***************************************************************************)
DefaultSettings == (KEY_REGION :> "us") @@ (KEY_APIKEY :> "k")

InitState ==
    /\ pc = "idle"
    /\ layers = <<>>
    /\ registry = <<>>
    /\ runs = <<>>
    /\ posts = <<>>
    /\ ncalls = 0
    /\ calc = [args |-> <<>>, answer |-> NoResult, status |-> "none", value |-> NoResult]

Init ==
    /\ settings = DefaultSettings
    /\ DrawResponse(MaxRoutes, MaxLabels, MaxLegs)
    /\ InitState

Next ==
    \/ add_line_layer(response)
    \/ setup_layer

Spec == Init /\ [][Next]_vars

(***************************************************************************)
(* calculate_routes(st_lon, st_lat, ed_lon, ed_lat).                       *)
(***************************************************************************)
Regions == {"us", "ap-northeast-1"}
ApiKeys == {"k", "v1.public.a1b2"}
Lons == {1, 3}
Lats == {2, 4}

\* get_configuration_settings: (region, apikey)
get_configuration_settings == <<settings[KEY_REGION], settings[KEY_APIKEY]>>

\* f"https://routes.geo.{region}.amazonaws.com/v2/routes?key={apikey}"
RoutesUrl(region, apikey) ==
    "https://routes.geo." \o region \o ".amazonaws.com/v2/routes?key=" \o apikey

\* the dict data of calculate_routes
RequestBody(st_lon, st_lat, ed_lon, ed_lat) ==
    [Origin |-> <<st_lon, st_lat>>,
     Destination |-> <<ed_lon, ed_lat>>,
     LegGeometryFormat |-> "Simple"]

\* Fault: the request is sent again when the helper answers with no data.
RequestsWithRetry(url, data, result) ==
    IF result = NoResult
    THEN <<[url |-> url, data |-> data], [url |-> url, data |-> data]>>
    ELSE <<[url |-> url, data |-> data]>>

\* the calls of send_json_post_request one calculate_routes call makes, given what the
\* helper answers
Requests(url, data, result) == <<[url |-> url, data |-> data]>>

\* Fault: no test of the helper's answer; None is returned like any value.
OutcomeUnchecked(result) == [status |-> "returned", value |-> result]

\* how calculate_routes ends, given what the helper answered
Outcome(result) ==
    IF result = NoResult
    THEN [status |-> "ValueError", value |-> NoResult]
    ELSE [status |-> "returned", value |-> result]

calculate_routes(st_lon, st_lat, ed_lon, ed_lat, result) ==
    /\ pc = "idle"
    /\ ncalls < MaxCalls
    /\ LET cfg == get_configuration_settings
           routes_url == RoutesUrl(cfg[1], cfg[2])
           data == RequestBody(st_lon, st_lat, ed_lon, ed_lat)
           end == Outcome(result)
       IN  /\ posts' = Requests(routes_url, data, result)
           /\ calc' = [args |-> <<st_lon, st_lat, ed_lon, ed_lat>>, answer |-> result,
                       status |-> end.status, value |-> end.value]
    /\ ncalls' = ncalls + 1
    /\ UNCHANGED <<pc, layers, registry, runs, envVars>>

(***************************************************************************)
(* Request, then rendering of what the request returned: the helper        *)
(* answers each call with no data or with the response.                    *)
(***************************************************************************)
InitCalc ==
    /\ settings \in {(KEY_REGION :> r) @@ (KEY_APIKEY :> k) : r \in Regions, k \in ApiKeys}
    /\ DrawResponse(1, 1, 1)
    /\ InitState

NextCalc ==
    \/ \E st_lon \in Lons, st_lat \in Lats, ed_lon \in Lons, ed_lat \in Lats :
           \E result \in {NoResult, response} :
               calculate_routes(st_lon, st_lat, ed_lon, ed_lat, result)
    \/ calc.status = "returned" /\ add_line_layer(calc.value)
    \/ setup_layer

SpecCalc == InitCalc /\ [][NextCalc]_vars

(***************************************************************************)
(* Vocabulary of the properties: a response read by its expected shape,    *)
(* and the invocations of add_line_layer.                                  *)
(***************************************************************************)
Invocations == 1..Len(runs)
Ended(r) == runs[r].status # "running"
Returned(r) == runs[r].status = "returned"
Failed(r) == runs[r].status \in {"KeyError", "UnboundLocalError"}
Registered(id) == \E n \in 1..Len(registry) : registry[n] = id

RoadNameField == [name |-> "RoadName", type |-> "String"]
RedLineStyle ==
    [type |-> "singleSymbol", symbolLayer |-> "SimpleLine", color |-> <<255, 0, 0>>, width |-> 2]

LegWellFormed(leg) == HasKey(leg, "Geometry") /\ HasKey(leg["Geometry"], "LineString")

AllLegsWellFormed(d) ==
    \A i \in 1..Len(RoutesOf(d)) :
        \A j \in 1..Len(LegsOf(RoutesOf(d)[i])) : LegWellFormed(LegsOf(RoutesOf(d)[i])[j])

EveryRouteLabelled(d) ==
    \A i \in 1..Len(RoutesOf(d)) : Len(LabelsOf(RoutesOf(d)[i])) >= 1

\* Number of legs of the routes before route i, and of all routes.
RECURSIVE LegsBefore(_, _)
LegsBefore(d, i) ==
    IF i <= 1 THEN 0 ELSE LegsBefore(d, i - 1) + Len(LegsOf(RoutesOf(d)[i - 1]))

LegCount(d) == LegsBefore(d, Len(RoutesOf(d)) + 1)

\* The road name of the last label of a route that has labels (None when that label
\* has no RoadName.Value).
LastRoadName(route) ==
    LET last == LabelsOf(route)[Len(LabelsOf(route))]
    IN  IF HasKey(last, "RoadName") /\ HasKey(last["RoadName"], "Value")
        THEN last["RoadName"]["Value"]
        ELSE None

\* The points of a geometry are the coordinates of a LineString, in order.
SamePoints(geometry, linestring) ==
    /\ Len(geometry.points) = Len(linestring)
    /\ \A n \in 1..Len(linestring) :
           /\ geometry.points[n].x = linestring[n][1]
           /\ geometry.points[n].y = linestring[n][2]

\* C2: for a response in which every route has at least one label (and every leg its
\* Geometry.LineString), add_line_layer completes and the layer holds exactly one
\* feature per leg, in route order then leg order; the feature of leg j of route i has
\* the points of that leg's LineString in order and, as its RoadName attribute, the
\* road name of the last label of route i.
C2_OneFeaturePerLeg ==
    \A r \in Invocations :
        LET d == runs[r].data
            f == layers[r].features
        IN  (Ended(r) /\ EveryRouteLabelled(d) /\ AllLegsWellFormed(d)) =>
                /\ Returned(r)
                /\ Len(f) = LegCount(d)
                /\ \A i \in 1..Len(RoutesOf(d)) :
                       \A j \in 1..Len(LegsOf(RoutesOf(d)[i])) :
                           LET feature == f[LegsBefore(d, i) + j]
                               leg == LegsOf(RoutesOf(d)[i])[j]
                           IN  /\ SamePoints(feature.geometry, leg["Geometry"]["LineString"])
                               /\ feature.attributes = <<LastRoadName(RoutesOf(d)[i])>>

\* One route, two legs, the single label "Main St": two features, both "Main St".
C2_Witness ==
    \E r \in Invocations :
        /\ Returned(r)
        /\ runs[r].data =
               [Routes |-> <<[MajorRoadLabels |-> <<[RoadName |-> [Value |-> "Main St"]]>>,
                              Legs |-> <<[Geometry |-> [LineString |-> << <<1, 1>>, <<1, 2>> >>]],
                                         [Geometry |-> [LineString |-> << <<1, 2>>, <<1, 3>> >>]]>>]>>]
        /\ Len(layers[r].features) = 2
        /\ layers[r].features[1].attributes = <<"Main St">>
        /\ layers[r].features[2].attributes = <<"Main St">>
        /\ layers[r].features[2].geometry.points = <<[x |-> 1, y |-> 2], [x |-> 1, y |-> 3]>>

\* C3: given a response with zero routes (an empty "Routes" list, or no "Routes" key),
\* add_line_layer completes; its layer has no feature, the single RoadName field and
\* the fixed style, and is registered with the host project.
C3_ZeroRoutesEmptyLayer ==
    \A r \in Invocations :
        LET d == runs[r].data
        IN  (Ended(r) /\ (~HasKey(d, "Routes") \/ d["Routes"] = <<>>)) =>
                /\ Returned(r)
                /\ layers[r].features = <<>>
                /\ layers[r].fields = <<RoadNameField>>
                /\ layers[r].renderer = RedLineStyle
                /\ Registered(layers[r].id)

\* A response without the "Routes" key was rendered and registered.
C3_Witness ==
    \E r \in Invocations :
        /\ ~HasKey(runs[r].data, "Routes")
        /\ Returned(r)
        /\ layers[r].features = <<>>
        /\ Registered(layers[r].id)

TimesRegistered(id) == Cardinality({n \in 1..Len(registry) : registry[n] = id})

C4_TwoLayers ==
    /\ Len(registry) = Cardinality({r \in Invocations : Returned(r)})
    /\ \A a, b \in Invocations :
           (a < b /\ Returned(a) /\ Returned(b) /\ runs[a].data = runs[b].data) =>
               /\ layers[a].id # layers[b].id
               /\ TimesRegistered(layers[a].id) = 1
               /\ TimesRegistered(layers[b].id) = 1
               /\ layers[b].features = layers[a].features
               /\ Len(layers[b].features) = LegCount(runs[b].data)

C4_RegisteredUntouched ==
    \A n \in 1..Len(registry) :
        /\ n <= Len(registry')
        /\ registry'[n] = registry[n]
        /\ layers'[registry[n]] = layers[registry[n]]

\* C4: calling add_line_layer twice with the same well-formed response registers two
\* distinct layers (the registry grows by one per completed call), each with the full
\* feature list a single call produces; no step of a later call changes a layer that
\* is already registered, or its place in the registry.
C4_IndependentLayers == []C4_TwoLayers /\ [][C4_RegisteredUntouched]_vars

\* Two calls with the same response have completed; both layers hold its features.
C4_Witness ==
    /\ pc = "idle"
    /\ Len(registry) = 2
    /\ runs[1].data = runs[2].data
    /\ Len(layers[1].features) = 2
    /\ Len(layers[2].features) = 2

\* C8, as claimed: every invocation of add_line_layer that has ended, whether it
\* completed or failed, has registered exactly one layer.
C8_OncePerInvocation ==
    \A r \in Invocations : Ended(r) => TimesRegistered(layers[r].id) = 1

\* C8, amended: an invocation of add_line_layer that completes has registered its
\* layer exactly once; one that failed, or is still running, has registered nothing;
\* the registry holds nothing else.
C8_OncePerCompletion ==
    /\ \A r \in Invocations :
           /\ Returned(r) => TimesRegistered(layers[r].id) = 1
           /\ ~Returned(r) => TimesRegistered(layers[r].id) = 0
    /\ Len(registry) = Cardinality({r \in Invocations : Returned(r)})

\* Two invocations have completed and the registry holds their two layers.
C8_Witness ==
    /\ pc = "idle"
    /\ Len(runs) = 2
    /\ Returned(1) /\ Returned(2)
    /\ registry = <<layers[1].id, layers[2].id>>

MalformedLegs(d) ==
    UNION {{<<i, j>> : j \in {h \in 1..Len(LegsOf(RoutesOf(d)[i])) :
                                  ~LegWellFormed(LegsOf(RoutesOf(d)[i])[h])}}
           : i \in 1..Len(RoutesOf(d))}

\* <<route, leg>> p is q or comes before q in the order the loops visit the legs.
AtOrBefore(p, q) == p[1] < q[1] \/ (p[1] = q[1] /\ p[2] <= q[2])

C10_RegisteredLayersComplete ==
    /\ \A n \in 1..Len(registry) :
           LET l == layers[registry[n]]
           IN  /\ Returned(l.id)
               /\ l.fields = <<RoadNameField>>
               /\ Len(l.features) = LegCount(runs[l.id].data)
               /\ l.renderer = RedLineStyle
               /\ l.repaints = 1
    /\ pc # "idle" =>
           LET l == layers[cur]
           IN  /\ ~Registered(l.id)
               /\ l.fields = IF pc = "add_attributes" THEN <<>> ELSE <<RoadNameField>>
               /\ pc \in {"add_attributes", "add_features"} => l.features = <<>>
               /\ l.renderer = IF pc \in {"triggerRepaint", "addMapLayer"}
                               THEN RedLineStyle ELSE [type |-> "default"]
               /\ l.repaints = IF pc = "addMapLayer" THEN 1 ELSE 0

\* A first layer is registered while a second one has its features and no style yet.
C10_Witness ==
    /\ Len(registry) = 1
    /\ pc = "apply_layer_style"
    /\ Len(layers[cur].features) >= 1
    /\ layers[cur].renderer = [type |-> "default"]

\* The route has no road name to give: no label, or a last label without RoadName.Value.
NoRoadName(route) ==
    IF Len(LabelsOf(route)) = 0 THEN TRUE ELSE LastRoadName(route) = None

\* C6, as claimed: where a route's MajorRoadLabels is missing or empty, or its last label
\* lacks RoadName or RoadName.Value, rendering completes, the layer is registered and
\* every feature built from that route's legs has the RoadName attribute None; for a
\* first route and for a route that follows a labelled one.
C6_NoneFallback ==
    \A r \in Invocations :
        LET d == runs[r].data
            f == layers[r].features
        IN  (Ended(r) /\ AllLegsWellFormed(d)) =>
                /\ Returned(r)
                /\ Registered(layers[r].id)
                /\ \A i \in 1..Len(RoutesOf(d)) :
                       NoRoadName(RoutesOf(d)[i]) =>
                           \A j \in 1..Len(LegsOf(RoutesOf(d)[i])) :
                               f[LegsBefore(d, i) + j].attributes = <<None>>

MissingKey(d) ==
    \/ ~HasKey(d, "Routes")
    \/ \E i \in 1..Len(RoutesOf(d)) :
           LET route == RoutesOf(d)[i]
           IN  \/ ~HasKey(route, "MajorRoadLabels")
               \/ ~HasKey(route, "Legs")
               \/ \E k \in 1..Len(LabelsOf(route)) :
                      \/ ~HasKey(LabelsOf(route)[k], "RoadName")
                      \/ ~HasKey(LabelsOf(route)[k]["RoadName"], "Value")
               \/ \E j \in 1..Len(LegsOf(route)) : ~LegWellFormed(LegsOf(route)[j])

\* C7, as claimed: a response that omits one of the keys Routes, MajorRoadLabels,
\* RoadName, Value, Legs, Geometry, LineString makes rendering fail.
C7_AnyMissingKeyFails ==
    \A r \in Invocations : (Ended(r) /\ MissingKey(runs[r].data)) => Failed(r)

\* Some route with a leg is reached while no label has been iterated: its own labels
\* and those of every earlier route are missing or empty.
LegBeforeAnyLabel(d) ==
    \E i \in 1..Len(RoutesOf(d)) :
        /\ Len(LegsOf(RoutesOf(d)[i])) >= 1
        /\ \A h \in 1..i : Len(LabelsOf(RoutesOf(d)[h])) = 0

\* C7, amended: rendering fails exactly when some leg lacks Geometry or
\* Geometry.LineString, or a leg is reached before any label has been iterated; a
\* KeyError is raised only at such a leg.  A response that omits Routes, Legs, RoadName
\* or Value, or MajorRoadLabels otherwise, completes.
C7_OnlyLegKeysRequired ==
    \A r \in Invocations :
        LET d == runs[r].data
        IN  Ended(r) =>
                /\ Failed(r) <=> (MalformedLegs(d) # {} \/ LegBeforeAnyLabel(d))
                /\ runs[r].status = "KeyError" => runs[r].at \in MalformedLegs(d)
                /\ (MalformedLegs(d) # {}) => Failed(r)

\* A leg that has Geometry but no LineString made rendering fail with KeyError.
C7_Witness ==
    \E r \in Invocations :
        /\ runs[r].status = "KeyError"
        /\ LET leg == LegsOf(RoutesOf(runs[r].data)[runs[r].at[1]])[runs[r].at[2]]
           IN  HasKey(leg, "Geometry") /\ ~HasKey(leg["Geometry"], "LineString")

C1_Outcome ==
    ncalls > 0 =>
        /\ calc.answer = NoResult => (calc.status = "ValueError" /\ calc.value = NoResult)
        /\ calc.answer # NoResult => (calc.status = "returned" /\ calc.value = calc.answer)

C1_NoLayerMutation ==
    ncalls' # ncalls =>
        /\ registry' = registry
        /\ layers' = layers
        /\ runs' = runs
        /\ pc' = pc

\* C1: a calculate_routes call in which the HTTP helper returns None ends with the
\* ValueError and returns nothing; one in which it returns a value returns exactly that
\* value; either way the call leaves the layer registry, and every layer, as it was.
C1_InvalidResponseFails == []C1_Outcome /\ [][C1_NoLayerMutation]_vars

\* A call failed on no data while the registry already held a layer.
C1_Witness ==
    /\ calc.status = "ValueError"
    /\ calc.answer = NoResult
    /\ Len(registry) = 1

\* C5: every calculate_routes call hands the helper exactly one request, whether the
\* helper answers or not; its URL is "https://routes.geo." + region +
\* ".amazonaws.com/v2/routes?key=" + key and its body holds Origin, Destination and
\* LegGeometryFormat "Simple".  With region "us", key "k" and (1,2)->(3,4) they are the
\* literal URL and body of the example.
C5_OneRequest ==
    ncalls > 0 =>
        /\ Len(posts) = 1
        /\ posts[1].url = "https://routes.geo." \o settings["region_value"]
                          \o ".amazonaws.com/v2/routes?key=" \o settings["apikey_value"]
        /\ DOMAIN posts[1].data = {"Origin", "Destination", "LegGeometryFormat"}
        /\ posts[1].data["Origin"] = <<calc.args[1], calc.args[2]>>
        /\ posts[1].data["Destination"] = <<calc.args[3], calc.args[4]>>
        /\ posts[1].data["LegGeometryFormat"] = "Simple"
        /\ (settings["region_value"] = "us" /\ settings["apikey_value"] = "k"
            /\ calc.args = <<1, 2, 3, 4>>) =>
               /\ posts[1].url = "https://routes.geo.us.amazonaws.com/v2/routes?key=k"
               /\ posts[1].data = [Origin |-> <<1, 2>>, Destination |-> <<3, 4>>,
                                   LegGeometryFormat |-> "Simple"]

\* The example request was issued once, by a call the helper gave no data.
C5_Witness ==
    /\ calc.status = "ValueError"
    /\ calc.args = <<1, 2, 3, 4>>
    /\ posts = <<[url |-> "https://routes.geo.us.amazonaws.com/v2/routes?key=k",
                  data |-> [Origin |-> <<1, 2>>, Destination |-> <<3, 4>>,
                            LegGeometryFormat |-> "Simple"]]>>

====
